---- MODULE Spec2Model ----
(***************************************************************************)
(* Snow-drift transport model (Tabler 2003) of the dashboard's             *)
(* utils/snowdrift_calculations.py, as a call machine: a caller picks one  *)
(* of the module's functions and its arguments, the function runs to its   *)
(* outcome (a value or a raised exception), and the caller returns to      *)
(* idle. The table a caller passes is an object of the caller's: beside    *)
(* the outcome, a call leaves that table as the function's assignments     *)
(* have left it.                                                           *)
(*                                                                         *)
(* Numbers are fixed-point integers, rounded to nearest where Python       *)
(* rounds a float:                                                         *)
(*   wind speed            tenths of m/s                                   *)
(*   wind direction        1/DegUnit degree, held as a binary float whose  *)
(*                         spacing doubles with every power of two         *)
(*   T, F                  metres                                          *)
(*   theta                 numerator over ThetaDen                         *)
(*   precipitation, Swe    mm                                              *)
(*   Srwe                  1/ThetaDen mm                                   *)
(*   Qupot, Qspot, Qinf, Qt, sector transport   1/QUnit kg/m               *)
(*   fence Qt              kg/m;  H in thousandths of a metre              *)
(***************************************************************************)
EXTENDS Integers, Sequences, FiniteSets, TLC

VARIABLES fn, args, out, prev, caller_df

vars == <<fn, args, out, prev, caller_df>>

----------------------------------------------------------------------------
(* Bounds of the explored inputs *)

MaxRows == 2
MaxHours == 2

(* Program constants *)

DefaultDt == 3600
TablerDivisor == 233847
NumSectors == 16

(* Fixed-point units *)

ThetaDen == 2
QUnit == 2 * ThetaDen
DecayDen == 1000
HDen == 1000
DegUnit == 4096

----------------------------------------------------------------------------
(* Generic helpers *)

RECURSIVE SumSeq(_)
SumSeq(s) == IF s = <<>> THEN 0 ELSE Head(s) + SumSeq(Tail(s))

Min(a, b) == IF a <= b THEN a ELSE b

(* a / b rounded to the nearest integer, b > 0 *)
RoundDiv(a, b) == (a + (b \div 2)) \div b

Range(s) == {s[i] : i \in DOMAIN s}

(* Python's sorted() over a set of integers *)
RECURSIVE SortedSeq(_)
SortedSeq(S) ==
    IF S = {} THEN <<>>
    ELSE LET m == CHOOSE x \in S : \A y \in S : x <= y
         IN <<m>> \o SortedSeq(S \ {m})

SeqsUpTo(S, n) == UNION {[1..k -> S] : k \in 0..n}

----------------------------------------------------------------------------
(* u ** 3.8 for a wind speed u in tenths of m/s, rounded to an integer *)
Pow38MutCube(u) ==
    CASE u = 0 -> 0
      [] u = 50 -> 125
      [] u = 100 -> 1000
      [] u = 143 -> 2924
      [] u = 163 -> 4331

Pow38(u) ==
    CASE u = 0 -> 0
      [] u = 50 -> 453
      [] u = 100 -> 6310
      [] u = 143 -> 24563
      [] u = 163 -> 40394

(* compute_Qupot: sum((u ** 3.8) * dt for u in speeds) / 233847 *)
compute_Qupot(hourly_wind_speeds, dt) ==
    RoundDiv(QUnit * SumSeq([i \in DOMAIN hourly_wind_speeds |->
                                Pow38(hourly_wind_speeds[i]) * dt]),
             TablerDivisor)

(* A float of num/den degrees, for the literals of sector_index *)
Degrees(num, den) == (num * DegUnit) \div den

(* The spacing of the floats around a magnitude a: one unit below 16       *)
(* degrees, doubling with every power of two above                         *)
RECURSIVE FloatSpacing(_)
FloatSpacing(a) == IF a < 16 * DegUnit THEN 1 ELSE 2 * FloatSpacing(a \div 2)

(* The float nearest to x, a tie going to the even multiple of the spacing *)
FloatRound(x) ==
    LET a == IF x < 0 THEN -x ELSE x
        g == FloatSpacing(a)
        lo == (a \div g) * g
        r == a - lo
        near == IF 2 * r < g THEN lo
                ELSE IF 2 * r > g THEN lo + g
                ELSE IF (lo \div g) % 2 = 0 THEN lo ELSE lo + g
    IN IF x < 0 THEN -near ELSE near

(* Python's x % y on floats, y > 0: fmod(x, y) is exact and has the sign   *)
(* of x; a negative remainder then has y added to it, and that sum is      *)
(* rounded.                                                                *)
float_mod(x, y) == IF x >= 0 THEN x % y ELSE FloatRound(x % y)

(* sector_index: int(((direction + 11.25) % 360) // 22.5) *)
sector_index(direction) ==
    float_mod(FloatRound(direction + Degrees(45, 4)), Degrees(360, 1))
       \div Degrees(45, 2)

(* zip(a, b): pairs up to the shorter length *)
Zip(a, b) == [i \in 1..Min(Len(a), Len(b)) |-> <<a[i], b[i]>>]

(* One hour's contribution ((u ** 3.8) * dt) / 233847 *)
HourTransportMutDefaultDt(u, dt) ==
    RoundDiv(QUnit * Pow38(u) * DefaultDt, TablerDivisor)

HourTransport(u, dt) == RoundDiv(QUnit * Pow38(u) * dt, TablerDivisor)

(* compute_sector_transport: 16 sums, one per sector *)
compute_sector_transport(hourly_wind_speeds, hourly_wind_dirs, dt) ==
    LET pairs == Zip(hourly_wind_speeds, hourly_wind_dirs)
    IN [idx \in 0..(NumSectors - 1) |->
          SumSeq([i \in DOMAIN pairs |->
                    IF sector_index(pairs[i][2]) = idx
                    THEN HourTransport(pairs[i][1], dt) ELSE 0])]

(* sectors[idx] += ... of compute_sector_transport raises IndexError for   *)
(* an idx that is no index of the list of 16                               *)
sectors_index_error(hourly_wind_dirs) ==
    \E i \in DOMAIN hourly_wind_dirs :
        sector_index(hourly_wind_dirs[i]) \notin 0..(NumSectors - 1)

(* The outcome of a call of compute_sector_transport *)
sector_transport_outcome(hourly_wind_speeds, hourly_wind_dirs, dt) ==
    LET pairs == Zip(hourly_wind_speeds, hourly_wind_dirs)
    IN IF sectors_index_error([i \in DOMAIN pairs |-> pairs[i][2]])
       THEN [kind |-> "raise", exc |-> "IndexError"]
       ELSE [kind |-> "ok",
             value |-> compute_sector_transport(hourly_wind_speeds,
                                                hourly_wind_dirs, dt)]

----------------------------------------------------------------------------
(* 0.14 ** (F / T) in 1/DecayDen, for F / T a multiple of one half. At    *)
(* F / T = 20 and above the power is below half the spacing of the floats  *)
(* under 1, so that 1 - 0.14 ** (F / T) is the float 1.0: the table's 0.   *)
Pow014(F, T) ==
    LET h == (2 * F) \div T
    IN CASE h = -4 -> 51020
         [] h = -2 -> 7143
         [] h = -1 -> 2673
         [] h = 0 -> 1000
         [] h = 1 -> 374
         [] h = 2 -> 140
         [] h = 4 -> 20
         [] h = 40 -> 0
         [] h = 80 -> 0

(* The regime test of compute_snow_transport: if Qupot > Qspot *)
SnowfallLimitedMutGe(Qupot, Qspot) == Qupot >= Qspot

SnowfallLimitedMutLt(Qupot, Qspot) == Qupot < Qspot

SnowfallLimited(Qupot, Qspot) == Qupot > Qspot

(* Qinf of the snowfall-controlled branch: 0.5 * T * Srwe *)
SnowfallQinf(T, Srwe) == (QUnit * T * Srwe) \div (2 * ThetaDen)

(* Qt = Qinf * (1 - 0.14 ** (F / T)) *)
FetchDecayMutSign(Qinf, F, T) ==
    RoundDiv(Qinf * (Pow014(F, T) - DecayDen), DecayDen)

FetchDecayMutNoDecay(Qinf, F, T) == Qinf

FetchDecay(Qinf, F, T) == RoundDiv(Qinf * (DecayDen - Pow014(F, T)), DecayDen)

(* compute_snow_transport: F / T raises ZeroDivisionError when T = 0 *)
compute_snow_transport(T, F, theta, Swe, hourly_wind_speeds, dt) ==
    LET Qupot == compute_Qupot(hourly_wind_speeds, dt)
        Qspot == (QUnit * T * Swe) \div 2
        Srwe == theta * Swe
        snow == SnowfallLimited(Qupot, Qspot)
        Qinf == IF snow THEN SnowfallQinf(T, Srwe) ELSE Qupot
        control == IF snow THEN "Snowfall controlled" ELSE "Wind controlled"
    IN IF T = 0
       THEN [kind |-> "raise", exc |-> "ZeroDivisionError"]
       ELSE [kind |-> "ok", Qupot |-> Qupot, Qspot |-> Qspot, Srwe |-> Srwe,
             Qinf |-> Qinf, Qt |-> FetchDecay(Qinf, F, T), Control |-> control]

----------------------------------------------------------------------------
(* Timestamps are <<year, month, day, hour, minute, second, millisecond>>, *)
(* compared as pandas compares them: lexicographically.                    *)
RECURSIVE TsLeFrom(_, _, _)
TsLeFrom(a, b, i) ==
    IF i > Len(a) THEN TRUE
    ELSE IF a[i] < b[i] THEN TRUE
    ELSE IF a[i] > b[i] THEN FALSE
    ELSE TsLeFrom(a, b, i + 1)

TsLe(a, b) == TsLeFrom(a, b, 1)

(* pd.Timestamp(year=s, month=7, day=1) *)
season_start(s) == <<s, 7, 1, 0, 0, 0, 0>>

(* pd.Timestamp(year=s+1, month=6, day=30, hour=23, minute=59, second=59) *)
season_end(s) == <<s + 1, 6, 30, 23, 59, 59, 0>>

(* The season label the pages give a row: year if month >= 7 else year-1 *)
season_of(time) == IF time[2] >= 7 THEN time[1] ELSE time[1] - 1

(* df['season'].unique(): the labels in their order of first appearance *)
RECURSIVE Unique(_)
Unique(labels) ==
    IF labels = <<>> THEN <<>>
    ELSE LET front == Unique(SubSeq(labels, 1, Len(labels) - 1))
             last == labels[Len(labels)]
         IN IF last \in Range(front) THEN front ELSE Append(front, last)

seasonsMutUnsorted(df) == Unique([i \in DOMAIN df |-> df[i].season])

(* sorted(df['season'].unique()), also the key order of df.groupby('season') *)
seasons(df) == SortedSeq({df[i].season : i \in DOMAIN df})

(* df[(df['time'] >= season_start) & (df['time'] <= season_end)] *)
df_seasonMutGroup(df, s) == SelectSeq(df, LAMBDA row : row.season = s)

df_season(df, s) ==
    SelectSeq(df, LAMBDA row : /\ TsLe(season_start(s), row.time)
                               /\ TsLe(row.time, season_end(s)))

(* The group of label s in df.groupby('season') *)
group(df, s) == SelectSeq(df, LAMBDA row : row.season = s)

(* Swe_hourly: precipitation if temperature_2m < 1 else 0 *)
Swe_hourlyMutLe(row) == IF row.temperature_2m <= 1 THEN row.precipitation ELSE 0

Swe_hourly(row) == IF row.temperature_2m < 1 THEN row.precipitation ELSE 0

Column(df, c) == [i \in DOMAIN df |-> df[i][c]]

(* str() of a non-negative integer, one character per digit *)
DigitChars == <<"0", "1", "2", "3", "4", "5", "6", "7", "8", "9">>

RECURSIVE Str(_)
Str(n) ==
    IF n < 10 THEN <<DigitChars[n + 1]>>
    ELSE Str(n \div 10) \o <<DigitChars[(n % 10) + 1]>>

(* f"{s}-{s+1}" *)
season_labelMutSameYear(s) == Str(s) \o <<"-">> \o Str(s)

season_label(s) == Str(s) \o <<"-">> \o Str(s + 1)

(* The test that skips a season: if df_season.empty: continue *)
SeasonSkippedMutNever(df_s) == FALSE

SeasonSkipped(df_s) == df_s = <<>>

(* The table object that the assignment of the column Swe_hourly writes    *)
(* to: the function's own copy (df_season = df_season.copy(),              *)
(* group = group.copy()), not the caller's df                              *)
SweColumnTargetMutCaller == "df"

SweColumnTarget == "copy"

(* A table with the column Swe_hourly assigned *)
with_Swe_hourly(df) ==
    [i \in DOMAIN df |->
       [c \in (DOMAIN df[i]) \cup {"Swe_hourly"} |->
          IF c = "Swe_hourly" THEN Swe_hourly(df[i]) ELSE df[i][c]]]

(* The caller's table after compute_yearly_results: the column is assigned *)
(* for every season kept, before compute_snow_transport is called          *)
df_after_yearly(df) ==
    IF /\ SweColumnTarget = "df"
       /\ \E s \in Range(seasons(df)) : ~SeasonSkipped(df_season(df, s))
    THEN with_Swe_hourly(df)
    ELSE df

(* The caller's table after compute_average_sector: the column is assigned *)
(* for every group                                                         *)
df_after_average(df) ==
    IF SweColumnTarget = "df" /\ df # <<>>
    THEN with_Swe_hourly(df)
    ELSE df

(* One pass of the loop of compute_yearly_results for a season it keeps *)
season_result(df, s, T, F, theta) ==
    LET df_s == df_season(df, s)
        total_Swe == SumSeq([i \in DOMAIN df_s |-> Swe_hourly(df_s[i])])
        wind_speeds == Column(df_s, "wind_speed_10m")
        result == compute_snow_transport(T, F, theta, total_Swe, wind_speeds,
                                         DefaultDt)
    IN IF result.kind = "raise" THEN result
       ELSE [kind |-> "ok", Qupot |-> result.Qupot, Qspot |-> result.Qspot,
             Srwe |-> result.Srwe, Qinf |-> result.Qinf, Qt |-> result.Qt,
             Control |-> result.Control,
             season |-> season_label(s), start_year |-> s]

(* compute_yearly_results: one row per season kept, an exception of        *)
(* compute_snow_transport leaves the function                              *)
compute_yearly_results(df, T, F, theta) ==
    LET kept == SelectSeq(seasons(df),
                          LAMBDA s : ~SeasonSkipped(df_season(df, s)))
        results_list == [i \in DOMAIN kept |->
                           season_result(df, kept[i], T, F, theta)]
    IN IF \E i \in DOMAIN results_list : results_list[i].kind = "raise"
       THEN [kind |-> "raise", exc |-> "ZeroDivisionError"]
       ELSE [kind |-> "ok", rows |-> results_list]

(* np.mean(sectors_list, axis=0): NaN for an empty list *)
mean_axis0(sectors_list) ==
    IF sectors_list = <<>>
    THEN [kind |-> "ok", nan |-> TRUE, value |-> <<>>]
    ELSE [kind |-> "ok", nan |-> FALSE,
          value |-> [idx \in 0..(NumSectors - 1) |->
                       RoundDiv(SumSeq([i \in DOMAIN sectors_list |->
                                          sectors_list[i][idx]]),
                                Len(sectors_list))]]

(* The per-season arrays of compute_average_sector *)
sectors_list_of(df) ==
    LET keys == seasons(df)
    IN [i \in DOMAIN keys |->
          LET g == group(df, keys[i])
          IN compute_sector_transport(Column(g, "wind_speed_10m"),
                                      Column(g, "wind_direction_10m"),
                                      DefaultDt)]

(* compute_average_sector: an exception of compute_sector_transport leaves *)
(* the function                                                            *)
compute_average_sector(df) ==
    IF sectors_index_error(Column(df, "wind_direction_10m"))
    THEN [kind |-> "raise", exc |-> "IndexError"]
    ELSE mean_axis0(sectors_list_of(df))

----------------------------------------------------------------------------
(* Strings that the code inspects are sequences of one-character strings *)
UpperChars ==
    <<"A", "B", "C", "D", "E", "F", "G", "H", "I", "J", "K", "L", "M", "N", "O", "P", "Q", "R", "S", "T", "U", "V", "W", "X", "Y", "Z">>

LowerChars ==
    <<"a", "b", "c", "d", "e", "f", "g", "h", "i", "j", "k", "l", "m", "n", "o", "p", "q", "r", "s", "t", "u", "v", "w", "x", "y", "z">>

(* str.lower() *)
lowerMutIdentity(str) == str

lower(str) ==
    [i \in DOMAIN str |->
       IF \E k \in DOMAIN UpperChars : UpperChars[k] = str[i]
       THEN LowerChars[CHOOSE k \in DOMAIN UpperChars : UpperChars[k] = str[i]]
       ELSE str[i]]

(* The storage capacity factor in tenths, 0 for the else branch: the       *)
(* if / elif chain of compute_fence_height over fence_type.lower()         *)
fence_factorMutDefaultSolid(fence_type) ==
    LET t == lower(fence_type)
    IN IF t = <<"w", "y", "o", "m", "i", "n", "g">> THEN 85
       ELSE IF t \in {<<"s", "l", "a", "t", "-", "a", "n", "d", "-", "w", "i", "r", "e">>,
                      <<"s", "l", "a", "t", " ", "a", "n", "d", " ", "w", "i", "r", "e">>} THEN 77
       ELSE 29

fence_factorMutSwapped(fence_type) ==
    LET t == lower(fence_type)
    IN IF t = <<"w", "y", "o", "m", "i", "n", "g">> THEN 29
       ELSE IF t \in {<<"s", "l", "a", "t", "-", "a", "n", "d", "-", "w", "i", "r", "e">>,
                      <<"s", "l", "a", "t", " ", "a", "n", "d", " ", "w", "i", "r", "e">>} THEN 77
       ELSE IF t = <<"s", "o", "l", "i", "d">> THEN 85
       ELSE 0

fence_factor(fence_type) ==
    LET t == lower(fence_type)
    IN IF t = <<"w", "y", "o", "m", "i", "n", "g">> THEN 85
       ELSE IF t \in {<<"s", "l", "a", "t", "-", "a", "n", "d", "-", "w", "i", "r", "e">>,
                      <<"s", "l", "a", "t", " ", "a", "n", "d", " ", "w", "i", "r", "e">>} THEN 77
       ELSE IF t = <<"s", "o", "l", "i", "d">> THEN 29
       ELSE 0

(* The message of the ValueError, cut at the quotation marks *)
UnsupportedMessage ==
    <<"Unsupported fence type. Choose '", "Wyoming", "', '", "Slat-and-wire",
      "', or '", "Solid", "'.">>

(* x ** (1 / 2.2) for x = Qt_tonnes / factor in 1/HDen, in 1/HDen *)
PowInv22MutSqrt(x) ==
    CASE x = 0 -> 0
      [] x = 341 -> 584
      [] x = 377 -> 614
      [] x = 906 -> 952
      [] x = 1000 -> 1000
      [] x = 1104 -> 1051
      [] x = 2655 -> 1629
      [] x = 2931 -> 1712

PowInv22(x) ==
    CASE x = 0 -> 0
      [] x = 341 -> 613
      [] x = 377 -> 642
      [] x = 906 -> 956
      [] x = 1000 -> 1000
      [] x = 1104 -> 1046
      [] x = 2655 -> 1559
      [] x = 2931 -> 1630

(* compute_fence_height: a negative base under a fractional power is a     *)
(* complex number in Python, not an exception                              *)
compute_fence_height(Qt, fence_type) ==
    LET factor == fence_factor(fence_type)
        x == RoundDiv(Qt * 10 * HDen, 1000 * factor)
    IN IF factor = 0
       THEN [kind |-> "raise", exc |-> "ValueError", msg |-> UnsupportedMessage]
       ELSE IF Qt < 0
       THEN [kind |-> "ok", complex |-> TRUE, H |-> 0]
       ELSE [kind |-> "ok", complex |-> FALSE, H |-> PowInv22(x)]

----------------------------------------------------------------------------
(* Inputs *)

Times ==
    { <<2021, 7, 1, 0, 0, 0, 0>>,
      <<2022, 6, 30, 23, 59, 59, 0>>,
      <<2022, 6, 30, 23, 59, 59, 500>>,
      <<2022, 7, 1, 0, 0, 0, 0>> }

SeasonLabels == {2021, 2022}

(* <<wind speed, wind direction>>, then <<temperature, precipitation>> *)
WindObs == { <<143, 0>>, <<163, Degrees(180, 1)>> }
Weather == { <<0, 0>>, <<0, 1>>, <<1, 1>> }

Rows ==
    { [time |-> t, season |-> s,
       wind_speed_10m |-> w[1], wind_direction_10m |-> w[2],
       temperature_2m |-> p[1], precipitation |-> p[2]] :
      t \in Times, s \in SeasonLabels, w \in WindObs, p \in Weather }

FenceTypes ==
    { <<"W", "y", "o", "m", "i", "n", "g">>,
      <<"W", "Y", "O", "M", "I", "N", "G">>,
      <<"w", "y", "o", "m", "i", "n", "g">>,
      <<"S", "l", "a", "t", "-", "a", "n", "d", "-", "w", "i", "r", "e">>,
      <<"s", "l", "a", "t", " ", "a", "n", "d", " ", "w", "i", "r", "e">>,
      <<"S", "L", "A", "T", " ", "A", "N", "D", " ", "W", "I", "R", "E">>,
      <<"S", "o", "l", "i", "d">>,
      <<"s", "O", "L", "I", "D">>,
      <<"u", "n", "k", "n", "o", "w", "n">>,
      <<>>,
      <<"w", "y", "o", "m", "i", "n", "g", " ">>,
      <<"s", "l", "a", "t", "_", "a", "n", "d", "_", "w", "i", "r", "e">>,
      <<"S", "n", "o", "w", " ", "f", "e", "n", "c", "e">> }

FenceQts == {-8500, 0, 2900, 7700, 8500}

YearlyTs == {-1000, 0, 1000}
YearlyFs == {1000}
YearlyThetas == {1, 2}

WindSpeeds == {0, 143, 163}
Dts == {1800, DefaultDt}

(* 0, 180 and the float next below -11.25 degrees *)
WindDirs == {0, Degrees(180, 1), (-Degrees(45, 4)) - 1}

(* Directions at and next to the sector boundaries 11.25 and 348.75, on    *)
(* both sides of 0, and whole turns away from them                         *)
Turns == -2..2

BaseDirections ==
    {0, Degrees(180, 1), Degrees(45, 1),
     Degrees(11249, 1000), Degrees(45, 4) - 2, Degrees(45, 4) - 1,
     Degrees(45, 4),
     Degrees(1395, 4) - 32, Degrees(1395, 4),
     -Degrees(45, 4), (-Degrees(45, 4)) - 1, (-Degrees(45, 4)) - 2}

Directions ==
    {FloatRound(x + k * Degrees(360, 1)) : x \in BaseDirections, k \in Turns}
Ts == {-1000, 0, 1000, 2000}
(* Fetch distances as half-multiples of T: F / T of 0, 0.5, 1, 2, and for *)
(* T > 0 of 20 and 40 too                                                  *)
FsFor(T) ==
    IF T = 0 THEN {0, 1000}
    ELSE IF T > 0 THEN {(h * T) \div 2 : h \in {0, 1, 2, 4, 40, 80}}
    ELSE {(h * (-T)) \div 2 : h \in {0, 1, 2, 4}}
Thetas == {0, 1, 2}
Swes == 0..2

NoCall == [kind |-> "none"]

Init ==
    /\ fn = "idle"
    /\ args = NoCall
    /\ out = NoCall
    /\ prev = NoCall
    /\ caller_df = NoCall

(* A direct call of compute_snow_transport with the default dt *)
CallSnowTransport ==
    /\ fn = "idle"
    /\ \E T \in Ts, theta \in Thetas, Swe \in Swes,
          ws \in SeqsUpTo(WindSpeeds, MaxHours) :
       \E F \in FsFor(T) :
          /\ args' = [T |-> T, F |-> F, theta |-> theta, Swe |-> Swe, ws |-> ws]
          /\ out' = compute_snow_transport(T, F, theta, Swe, ws, DefaultDt)
    /\ fn' = "compute_snow_transport"
    /\ prev' = NoCall
    /\ caller_df' = NoCall

(* A call of compute_yearly_results on a table of observations *)
CallYearlyResults ==
    /\ fn = "idle"
    /\ \E df \in SeqsUpTo(Rows, MaxRows), T \in YearlyTs, F \in YearlyFs,
          theta \in YearlyThetas :
          /\ args' = [df |-> df, T |-> T, F |-> F, theta |-> theta]
          /\ out' = compute_yearly_results(df, T, F, theta)
          /\ caller_df' = df_after_yearly(df)
    /\ fn' = "compute_yearly_results"
    /\ prev' = NoCall

(* A call of compute_average_sector on a table of observations *)
CallAverageSector ==
    /\ fn = "idle"
    /\ \E df \in SeqsUpTo(Rows, MaxRows) :
          /\ args' = [df |-> df]
          /\ out' = compute_average_sector(df)
          /\ caller_df' = df_after_average(df)
    /\ fn' = "compute_average_sector"
    /\ prev' = NoCall

(* A direct call of compute_sector_transport; the two sequences are the   *)
(* caller's and need not be of one length                                  *)
CallSectorTransport ==
    /\ fn = "idle"
    /\ \E ws \in SeqsUpTo(WindSpeeds, MaxHours),
          wdirs \in SeqsUpTo(WindDirs, MaxHours), dt \in Dts :
          /\ args' = [ws |-> ws, wdirs |-> wdirs, dt |-> dt]
          /\ out' = sector_transport_outcome(ws, wdirs, dt)
    /\ fn' = "compute_sector_transport"
    /\ prev' = NoCall
    /\ caller_df' = NoCall

(* A direct call of compute_Qupot *)
CallQupot ==
    /\ fn = "idle"
    /\ \E ws \in SeqsUpTo(WindSpeeds, MaxHours), dt \in Dts :
          /\ args' = [ws |-> ws, dt |-> dt]
          /\ out' = [kind |-> "ok", value |-> compute_Qupot(ws, dt)]
    /\ fn' = "compute_Qupot"
    /\ prev' = NoCall
    /\ caller_df' = NoCall

(* A direct call of sector_index *)
CallSectorIndex ==
    /\ fn = "idle"
    /\ \E direction \in Directions :
          /\ args' = [direction |-> direction]
          /\ out' = [kind |-> "ok", value |-> sector_index(direction)]
    /\ fn' = "sector_index"
    /\ prev' = NoCall
    /\ caller_df' = NoCall

(* A call of compute_fence_height *)
CallFenceHeight ==
    /\ fn = "idle"
    /\ \E Qt \in FenceQts, fence_type \in FenceTypes :
          /\ args' = [Qt |-> Qt, fence_type |-> fence_type]
          /\ out' = compute_fence_height(Qt, fence_type)
    /\ fn' = "compute_fence_height"
    /\ prev' = NoCall
    /\ caller_df' = NoCall

(* A caller sweeping the wind upwards: the same T, F, theta and Swe, every  *)
(* hour's speed at least what it was and one of them higher; it remembers  *)
(* the outcome before, the Qupot the sweep started from and how often      *)
(* Control has changed.                                                    *)
Increased(ws, ws2) ==
    /\ Len(ws2) = Len(ws)
    /\ \A i \in DOMAIN ws : ws2[i] >= ws[i]
    /\ \E i \in DOMAIN ws : ws2[i] > ws[i]

SweepWind ==
    /\ fn = "compute_snow_transport"
    /\ out.kind = "ok"
    /\ \E ws2 \in SeqsUpTo(WindSpeeds, MaxHours) :
          /\ Increased(args.ws, ws2)
          /\ args' = [args EXCEPT !.ws = ws2]
          /\ out' = compute_snow_transport(args.T, args.F, args.theta,
                                          args.Swe, ws2, DefaultDt)
    /\ prev' = [kind |-> "swept",
                Control |-> out.Control,
                Qupot |-> out.Qupot,
                startQupot |-> IF prev.kind = "swept" THEN prev.startQupot
                               ELSE out.Qupot,
                changes |-> (IF prev.kind = "swept" THEN prev.changes ELSE 0)
                            + (IF out'.Control # out.Control THEN 1 ELSE 0)]
    /\ UNCHANGED <<fn, caller_df>>

(* The caller drops the outcome *)
Return ==
    /\ fn # "idle"
    /\ fn' = "idle"
    /\ args' = NoCall
    /\ out' = NoCall
    /\ prev' = NoCall
    /\ caller_df' = NoCall

Next ==
    \/ CallSnowTransport
    \/ SweepWind
    \/ CallYearlyResults
    \/ CallAverageSector
    \/ CallSectorTransport
    \/ CallQupot
    \/ CallSectorIndex
    \/ CallFenceHeight
    \/ Return

Spec == Init /\ [][Next]_vars

----------------------------------------------------------------------------
(* The loops of compute_yearly_results and of compute_average_sector with  *)
(* their passes, one per season label, taken in any order by a caller      *)
(* that then collects the outcomes by start year.                          *)

TaskRows == {r \in Rows : r.temperature_2m = 0 /\ r.precipitation = 1}
TaskTs == {0, 1000}

(* One pass of the loop body for the label s: of compute_yearly_results    *)
(* (kind "results") or of compute_average_sector (kind "sectors")          *)
season_pass(kind, df, s, T, F, theta) ==
    IF kind = "results"
    THEN IF SeasonSkipped(df_season(df, s))
         THEN [key |-> s, kept |-> FALSE, result |-> NoCall]
         ELSE [key |-> s, kept |-> TRUE,
               result |-> season_result(df, s, T, F, theta)]
    ELSE LET g == group(df, s)
         IN [key |-> s, kept |-> TRUE,
             result |-> [kind |-> "ok",
                         value |-> compute_sector_transport(
                                       Column(g, "wind_speed_10m"),
                                       Column(g, "wind_direction_10m"),
                                       DefaultDt)]]

(* pd.DataFrame(results_list) and np.mean(sectors_list, axis=0) over the   *)
(* outcomes of the passes, put in the order of their start years           *)
collect_by_start_year(kind, done) ==
    LET keys == SortedSeq({done[i].key : i \in {j \in DOMAIN done : done[j].kept}})
        results == [k \in DOMAIN keys |->
                      done[CHOOSE i \in DOMAIN done : done[i].key = keys[k]].result]
    IN IF kind = "results"
       THEN IF \E k \in DOMAIN results : results[k].kind = "raise"
            THEN [kind |-> "raise", exc |-> "ZeroDivisionError"]
            ELSE [kind |-> "ok", rows |-> results]
       ELSE mean_axis0([k \in DOMAIN results |-> results[k].value])

TasksInit ==
    /\ fn = "seasons_in_any_order"
    /\ args \in {[kind |-> k, df |-> df, T |-> T, F |-> 1000, theta |-> 1] :
                    k \in {"results", "sectors"},
                    df \in SeqsUpTo(TaskRows, MaxRows), T \in TaskTs}
    /\ out = [kind |-> "running", done |-> <<>>]
    /\ prev = NoCall
    /\ caller_df = args.df

(* The pass of a label that has not been run yet *)
RunSeason ==
    /\ fn = "seasons_in_any_order"
    /\ \E s \in {args.df[i].season : i \in DOMAIN args.df}
                 \ {out.done[i].key : i \in DOMAIN out.done} :
          out' = [out EXCEPT !.done =
                     Append(@, season_pass(args.kind, args.df, s,
                                           args.T, args.F, args.theta))]
    /\ UNCHANGED <<fn, args, prev, caller_df>>

(* Every label has had its pass: the caller collects, and remembers the    *)
(* order in which the passes ended                                         *)
Collect ==
    /\ fn = "seasons_in_any_order"
    /\ {args.df[i].season : i \in DOMAIN args.df}
          = {out.done[i].key : i \in DOMAIN out.done}
    /\ fn' = "collected"
    /\ out' = collect_by_start_year(args.kind, out.done)
    /\ prev' = [kind |-> "order",
                keys |-> [i \in DOMAIN out.done |-> out.done[i].key]]
    /\ UNCHANGED <<args, caller_df>>

TasksNext ==
    \/ RunSeason
    \/ Collect

TasksSpec == TasksInit /\ [][TasksNext]_vars

----------------------------------------------------------------------------
(* compute_yearly_results called again after the caller's table was        *)
(* edited: one observation added, removed or changed. args and out are the *)
(* latest call and its outcome, prev the call before it.                   *)

(* Snow at 14.3 m/s, at each of the times and under each label *)
EditRows == {r \in TaskRows : r.wind_speed_10m = 143}
EditT == 1000
EditF == 1000
EditTheta == 1

yearly_call(df) == compute_yearly_results(df, EditT, EditF, EditTheta)

InsertAt(df, pos, row) ==
    SubSeq(df, 1, pos) \o <<row>> \o SubSeq(df, pos + 1, Len(df))

RemoveAt(df, pos) == SubSeq(df, 1, pos - 1) \o SubSeq(df, pos + 1, Len(df))

EditInit ==
    /\ fn = "compute_yearly_results"
    /\ args \in {[df |-> df, T |-> EditT, F |-> EditF, theta |-> EditTheta] :
                    df \in SeqsUpTo(EditRows, MaxRows)}
    /\ out = yearly_call(args.df)
    /\ prev = NoCall
    /\ caller_df = df_after_yearly(args.df)

(* The call on the edited table *)
CallEdited(df) ==
    /\ prev' = [kind |-> "call", df |-> args.df, out |-> out]
    /\ args' = [args EXCEPT !.df = df]
    /\ out' = yearly_call(df)
    /\ caller_df' = df_after_yearly(df)
    /\ UNCHANGED fn

AddObservation ==
    /\ Len(args.df) < MaxRows
    /\ \E row \in EditRows, pos \in 0..Len(args.df) :
          CallEdited(InsertAt(args.df, pos, row))

RemoveObservation ==
    \E pos \in DOMAIN args.df : CallEdited(RemoveAt(args.df, pos))

ChangeObservation ==
    \E pos \in DOMAIN args.df, row \in EditRows :
        /\ row # args.df[pos]
        /\ CallEdited([args.df EXCEPT ![pos] = row])

EditNext ==
    \/ AddObservation
    \/ RemoveObservation
    \/ ChangeObservation

EditSpec == EditInit /\ [][EditNext]_vars

----------------------------------------------------------------------------
(* A run of the Snow Drift page (pages/06_Snow_Drift.py, and               *)
(* pages/07_Weather_Snowdrift.py, which has the same steps), from top to   *)
(* bottom. Streamlit runs the script once per interaction; the session     *)
(* state is what the run finds, and the page itself never writes           *)
(* chosen_area. Here fn is the position in the script, args the page and   *)
(* the session's chosen_area ("absent" for no such key, "None" for the     *)
(* value None), out the steps the run has reached, prev the year range,    *)
(* caller_df the table loaded.                                             *)

PriceAreas == {"NO1", "NO2", "NO3", "NO4", "NO5"}
PageNames == {"06_Snow_Drift", "07_Weather_Snowdrift"}
PageYears == {2021, 2022}

(* if "chosen_area" not in st.session_state or                             *)
(*    st.session_state.chosen_area is None                                 *)
no_area_selectedMutKeyOnly(chosen_area) == chosen_area = "absent"

no_area_selected(chosen_area) == chosen_area \in {"absent", "None"}

PageInit ==
    /\ fn = "page_idle"
    /\ args \in {[page |-> "none", chosen_area |-> c] : c \in {"absent", "None"}}
    /\ out = [reached |-> <<>>]
    /\ prev = NoCall
    /\ caller_df = NoCall

(* Another page stores a price area: the map page and choose_price_area *)
SetChosenArea ==
    /\ fn = "page_idle"
    /\ \E area \in PriceAreas : args' = [args EXCEPT !.chosen_area = area]
    /\ UNCHANGED <<fn, out, prev, caller_df>>

(* The user opens the page, or interacts with it: the script starts *)
OpenPage ==
    /\ fn = "page_idle"
    /\ \E page \in PageNames : args' = [args EXCEPT !.page = page]
    /\ fn' = "guard"
    /\ out' = [reached |-> <<>>]
    /\ UNCHANGED <<prev, caller_df>>

(* The guard: st.warning and st.stop() without a price area *)
Guard ==
    /\ fn = "guard"
    /\ IF no_area_selected(args.chosen_area)
       THEN /\ out' = [reached |-> Append(out.reached, "warning")]
            /\ fn' = "stopped"
       ELSE /\ out' = out
            /\ fn' = "area_lookup"
    /\ UNCHANGED <<args, prev, caller_df>>

(* city_data_df[city_data_df['PriceArea'] == chosen_area].iloc[0] raises   *)
(* IndexError when no row matches                                          *)
AreaLookup ==
    /\ fn = "area_lookup"
    /\ fn' = IF args.chosen_area \in PriceAreas THEN "parameters" ELSE "failed"
    /\ UNCHANGED <<args, out, prev, caller_df>>

(* The year range widgets (the end year's min_value is the start year);    *)
(* an end year before the start year would stop the run                    *)
Parameters ==
    /\ fn = "parameters"
    /\ \E year_start \in PageYears :
       \E year_end \in {y \in PageYears : y >= year_start} :
          /\ prev' = [kind |-> "years", year_start |-> year_start,
                      year_end |-> year_end]
          /\ IF year_end < year_start
             THEN /\ out' = [reached |-> Append(out.reached, "error")]
                  /\ fn' = "stopped"
             ELSE /\ out' = out
                  /\ fn' = "load"
    /\ UNCHANGED <<args, caller_df>>

(* load_multi_year_weather_data inside try: a table, or an exception that  *)
(* stops the run                                                           *)
Load ==
    /\ fn = "load"
    /\ \E outcome \in {"seasons", "no complete season", "exception"} :
          IF outcome = "exception"
          THEN /\ out' = [reached |-> out.reached \o
                              <<"load_multi_year_weather_data", "error">>]
               /\ fn' = "stopped"
               /\ caller_df' = NoCall
          ELSE /\ out' = [reached |-> Append(out.reached,
                                              "load_multi_year_weather_data")]
               /\ fn' = "calculate"
               /\ caller_df' = [kind |-> "loaded",
                                complete_seasons |-> outcome = "seasons"]
    /\ UNCHANGED <<args, prev>>

(* The two calculations, then st.stop() if yearly_results.empty *)
Calculate ==
    /\ fn = "calculate"
    /\ out' = [reached |-> out.reached \o
                   <<"compute_yearly_results", "compute_average_sector">>]
    /\ fn' = IF caller_df.complete_seasons THEN "display" ELSE "stopped"
    /\ UNCHANGED <<args, prev, caller_df>>

(* The run has ended: stopped, failed or shown to its end *)
EndRun ==
    /\ fn \in {"stopped", "failed", "display"}
    /\ fn' = "page_idle"
    /\ prev' = NoCall
    /\ caller_df' = NoCall
    /\ UNCHANGED <<args, out>>

PageNext ==
    \/ SetChosenArea
    \/ OpenPage
    \/ Guard
    \/ AreaLookup
    \/ Parameters
    \/ Load
    \/ Calculate
    \/ EndRun

PageSpec == PageInit /\ [][PageNext]_vars

----------------------------------------------------------------------------
(* Claims *)

SnowCall == fn = "compute_snow_transport" /\ out.kind = "ok"

(* C1: for every T > 0, theta, Swe and wind sequence, Control is           *)
(* "Snowfall controlled" with Qinf = 0.5*T*Srwe exactly when Qupot > Qspot, *)
(* and otherwise, the tie Qupot = Qspot included, Control is               *)
(* "Wind controlled" with Qinf = Qupot; in both cases Qspot = 0.5*T*Swe    *)
(* and Srwe = theta*Swe.                                                   *)
C1_RegimeStrict ==
    (SnowCall /\ args.T > 0) =>
        /\ 2 * out.Qspot = QUnit * args.T * args.Swe
        /\ out.Srwe = args.theta * args.Swe
        /\ (out.Qupot > out.Qspot) <=> (out.Control = "Snowfall controlled")
        /\ (out.Qupot <= out.Qspot) <=> (out.Control = "Wind controlled")
        /\ out.Control = "Snowfall controlled" =>
              2 * ThetaDen * out.Qinf = QUnit * args.T * out.Srwe
        /\ out.Control = "Wind controlled" => out.Qinf = out.Qupot

(* A tie of non-zero transports, resolved to wind control *)
C1_Witness ==
    /\ SnowCall /\ args.T > 0
    /\ out.Qupot = out.Qspot /\ out.Qupot > 0
    /\ out.Control = "Wind controlled"

C1_WitnessSnow ==
    /\ SnowCall /\ args.T > 0
    /\ out.Qupot > out.Qspot /\ out.Qspot > 0 /\ out.Qinf > 0

(* C3 as claimed: as the wind speeds are increased with T, theta and Swe   *)
(* fixed, Control changes exactly once, from "Snowfall controlled" to      *)
(* "Wind controlled", where Qupot crosses Qspot; at equality it is         *)
(* "Wind controlled".                                                      *)
C3_AsClaimed ==
    (SnowCall /\ prev.kind = "swept" /\ args.T > 0) =>
        /\ prev.changes <= 1
        /\ out.Control # prev.Control =>
              /\ prev.Control = "Snowfall controlled"
              /\ out.Control = "Wind controlled"
        /\ out.Qupot = out.Qspot => out.Control = "Wind controlled"

(* C3 amended: as the wind speeds are increased with T, theta and Swe      *)
(* fixed, Control changes at most once, and exactly once when Qupot starts *)
(* at or below Qspot and ends above it: from "Wind controlled" to          *)
(* "Snowfall controlled", at the step where Qupot first exceeds Qspot; at  *)
(* equality it is "Wind controlled".                                       *)
C3_WindToSnowfallOnce ==
    (SnowCall /\ prev.kind = "swept") =>
        /\ out.Qupot > prev.Qupot
        /\ prev.changes <= 1
        /\ prev.changes = 1 <=>
              (prev.startQupot <= out.Qspot /\ out.Qspot < out.Qupot)
        /\ out.Control # prev.Control <=>
              (prev.Qupot <= out.Qspot /\ out.Qspot < out.Qupot)
        /\ out.Control # prev.Control =>
              /\ prev.Control = "Wind controlled"
              /\ out.Control = "Snowfall controlled"
        /\ out.Qupot = out.Qspot => out.Control = "Wind controlled"

(* A sweep of two steps: a tie first, still wind controlled, then above *)
C3_Witness ==
    /\ SnowCall /\ prev.kind = "swept" /\ args.T > 0
    /\ prev.changes = 1
    /\ prev.Control = "Wind controlled"
    /\ prev.Qupot = out.Qspot /\ prev.Qupot > prev.startQupot
    /\ out.Control = "Snowfall controlled"

----------------------------------------------------------------------------
(* What the claims about seasons speak of, stated on the calendar and not  *)
(* through the code's comparisons: a timestamp lies in season s's window   *)
(* [July 1 00:00:00 of s, June 30 23:59:59 of s+1].                        *)
InSeasonWindow(t, s) ==
    \/ t[1] = s /\ t[2] >= 7
    \/ /\ t[1] = s + 1
       /\ \/ t[2] < 6
          \/ t[2] = 6 /\ t[3] < 30
          \/ /\ t[2] = 6 /\ t[3] = 30
             /\ (t[4] * 3600 + t[5] * 60 + t[6]) * 1000 + t[7] <= 86399000

LabelsOf(df) == {df[i].season : i \in DOMAIN df}

WindowRows(df, s) == {i \in DOMAIN df : InSeasonWindow(df[i].time, s)}

ReportedSeasons(df) == {s \in LabelsOf(df) : WindowRows(df, s) # {}}

StartYears(rows) == {rows[i].start_year : i \in DOMAIN rows}

YearlyCall == fn = "compute_yearly_results" /\ out.kind = "ok"

(* The season's hours, in its window, that carry snow: precipitation at a  *)
(* temperature below 1 degree C                                            *)
SnowHours(df, s) ==
    {i \in WindowRows(df, s) :
        df[i].temperature_2m < 1 /\ df[i].precipitation > 0}

(* A row of season 2021-2022 with Qupot = 1000 kg/m and a total Swe of 0 *)
C2_Case(i) ==
    /\ out.rows[i].start_year = 2021
    /\ out.rows[i].Qupot = 1000 * QUnit
    /\ SnowHours(args.df, 2021) = {}
    /\ args.T > 0

(* C2 as claimed: for a season 2021-2022 with Qupot = 1000 and Swe = 0,    *)
(* compute_yearly_results returns Qspot = 0, Control wind-controlled,      *)
(* Qinf = 1000 = Qupot and Qt = Qinf*(1 - 0.14^(F/T)), with the season     *)
(* label "2021-2022" and start_year = 2021.                                *)
C2_AsClaimed ==
    YearlyCall =>
        \A i \in DOMAIN out.rows :
            C2_Case(i) =>
                /\ out.rows[i].Qspot = 0
                /\ out.rows[i].Control = "Wind controlled"
                /\ out.rows[i].Qinf = 1000 * QUnit
                /\ DecayDen * out.rows[i].Qt
                     = out.rows[i].Qinf * (DecayDen - Pow014(args.F, args.T))
                /\ out.rows[i].season = <<"2", "0", "2", "1", "-", "2", "0", "2", "2">>

(* C2 amended: for a season 2021-2022 with Qupot = 1000 and Swe = 0,       *)
(* compute_yearly_results returns Qspot = 0, Control snowfall-controlled   *)
(* (Qupot > Qspot), Qinf = 0.5*T*Srwe = 0 and Qt = Qinf*(1 - 0.14^(F/T))   *)
(* = 0, with the season label "2021-2022" and start_year = 2021.           *)
C2_SnowfallControlledZero ==
    YearlyCall =>
        \A i \in DOMAIN out.rows :
            C2_Case(i) =>
                /\ out.rows[i].Qspot = 0
                /\ out.rows[i].Control = "Snowfall controlled"
                /\ out.rows[i].Srwe = 0
                /\ out.rows[i].Qinf = 0
                /\ out.rows[i].Qt = 0
                /\ out.rows[i].season = <<"2", "0", "2", "1", "-", "2", "0", "2", "2">>
                /\ out.rows[i].start_year = 2021

(* Every row carries the label the pages derive from its timestamp *)
LabelsDerived(df) == \A i \in DOMAIN df : df[i].season = season_of(df[i].time)

(* Two hours of season 2021-2022, at 14.3 and 16.3 m/s, without snow *)
C2_Witness ==
    /\ YearlyCall
    /\ LabelsDerived(args.df)
    /\ Len(out.rows) = 1
    /\ C2_Case(1)

(* C4: compute_yearly_results returns exactly one result per season label  *)
(* of the input that has an observation in its window, in strictly         *)
(* ascending start_year order without duplicates, each with                *)
(* season = "{start_year}-{start_year+1}" and the matching start_year.     *)
C4_OnePerSeasonAscending ==
    YearlyCall =>
        /\ StartYears(out.rows) = ReportedSeasons(args.df)
        /\ Len(out.rows) = Cardinality(ReportedSeasons(args.df))
        /\ \A i, j \in DOMAIN out.rows :
              i < j => out.rows[i].start_year < out.rows[j].start_year
        /\ \A i \in DOMAIN out.rows :
              /\ out.rows[i].start_year = 2021 =>
                    out.rows[i].season = <<"2", "0", "2", "1", "-", "2", "0", "2", "2">>
              /\ out.rows[i].start_year = 2022 =>
                    out.rows[i].season = <<"2", "0", "2", "2", "-", "2", "0", "2", "3">>
              /\ out.rows[i].start_year \in {2021, 2022}

(* Two seasons reported from a table that holds the later season first *)
C4_Witness ==
    /\ YearlyCall
    /\ args.T > 0
    /\ LabelsDerived(args.df)
    /\ Len(args.df) = 2
    /\ args.df[1].season > args.df[2].season
    /\ Len(out.rows) = 2

(* C5: a season whose window holds no observation never appears in the    *)
(* output of compute_yearly_results, not as a zero-filled row either; that *)
(* is no error, and the other seasons are still reported.                  *)
C5_EmptySeasonExcluded ==
    (fn = "compute_yearly_results" /\ args.T # 0) =>
        /\ out.kind = "ok"
        /\ \A s \in LabelsOf(args.df) :
              WindowRows(args.df, s) = {} =>
                  \A i \in DOMAIN out.rows : out.rows[i].start_year # s
        /\ \A s \in LabelsOf(args.df) :
              WindowRows(args.df, s) # {} =>
                  \E i \in DOMAIN out.rows : out.rows[i].start_year = s

(* A label whose window is empty beside a season that is reported *)
C5_Witness ==
    /\ YearlyCall
    /\ args.T > 0
    /\ \E s \in LabelsOf(args.df) : WindowRows(args.df, s) = {}
    /\ Len(out.rows) = 1

(* C6: the seasons whose arrays enter the mean of compute_average_sector   *)
(* are exactly the seasons in the output of compute_yearly_results, each   *)
(* season's array is built from the observations its Transport Result is   *)
(* built from, and the array returned is the elementwise mean over them.   *)
C6_SameGrouping ==
    (fn = "compute_average_sector" /\ args.df # <<>>) =>
        LET yearly == compute_yearly_results(args.df, 1000, 1000, 1)
            keys == seasons(args.df)
            arrays == sectors_list_of(args.df)
        IN /\ Range(keys) = StartYears(yearly.rows)
           /\ \A s \in Range(keys) : group(args.df, s) = df_season(args.df, s)
           /\ ~out.nan
           /\ \A idx \in 0..(NumSectors - 1) :
                 out.value[idx]
                   = RoundDiv(SumSeq([i \in DOMAIN arrays |-> arrays[i][idx]]),
                              Len(arrays))

(* C7: compute_average_sector on an input with no season of data fails     *)
(* with an explicit error and returns no array, never a NaN from a mean    *)
(* over an empty list.                                                     *)
C7_InsufficientData ==
    (fn = "compute_average_sector" /\ LabelsOf(args.df) = {}) =>
        out.kind = "raise"

(* C8: compute_snow_transport, and hence compute_yearly_results, called    *)
(* with T = 0 or T < 0 fails at the function boundary and produces no      *)
(* Transport Result.                                                       *)
C8_DomainError ==
    /\ (fn = "compute_snow_transport" /\ args.T <= 0) => out.kind = "raise"
    /\ (fn = "compute_yearly_results" /\ args.T <= 0) => out.kind = "raise"

(* C9: compute_sector_transport called with wind-speed and wind-direction  *)
(* sequences of different lengths fails and returns no sector array; it    *)
(* never truncates to the shorter sequence.                                *)
C9_InvalidInput ==
    (fn = "compute_sector_transport" /\ Len(args.ws) # Len(args.wdirs)) =>
        out.kind = "raise"

(* Two strings are equal up to the case of their letters *)
SameIgnoringCase(a, b) ==
    /\ Len(a) = Len(b)
    /\ \A i \in DOMAIN a :
          \/ a[i] = b[i]
          \/ \E k \in DOMAIN UpperChars :
                {a[i], b[i]} = {UpperChars[k], LowerChars[k]}

Recognised(fence_type) ==
    \E name \in {<<"w", "y", "o", "m", "i", "n", "g">>,
                  <<"s", "l", "a", "t", "-", "a", "n", "d", "-", "w", "i", "r", "e">>,
                  <<"s", "l", "a", "t", " ", "a", "n", "d", " ", "w", "i", "r", "e">>,
                  <<"s", "o", "l", "i", "d">>} :
        SameIgnoringCase(fence_type, name)

(* C10: compute_fence_height with a fence type that is none of wyoming,    *)
(* slat-and-wire, slat and wire, solid (compared without regard to case)   *)
(* fails with an error whose message names the three valid choices and     *)
(* returns no height, whatever Qt is.                                      *)
C10_UnsupportedFenceType ==
    (fn = "compute_fence_height" /\ ~Recognised(args.fence_type)) =>
        /\ out.kind = "raise"
        /\ out.exc = "ValueError"
        /\ {"Wyoming", "Slat-and-wire", "Solid"} \subseteq Range(out.msg)

(* An unknown type with capitals in it, with a negative Qt *)
C10_Witness ==
    /\ fn = "compute_fence_height"
    /\ ~Recognised(args.fence_type)
    /\ lower(args.fence_type) # args.fence_type
    /\ args.Qt < 0
    /\ out.kind = "raise"

(* The factor, in tenths, that the specification gives a fence type, by    *)
(* its name without regard to case; 0 for a name it does not list          *)
ClaimedFactor(fence_type) ==
    IF SameIgnoringCase(fence_type, <<"w", "y", "o", "m", "i", "n", "g">>)
    THEN 85
    ELSE IF \/ SameIgnoringCase(fence_type,
                  <<"s", "l", "a", "t", "-", "a", "n", "d", "-", "w", "i", "r", "e">>)
            \/ SameIgnoringCase(fence_type,
                  <<"s", "l", "a", "t", " ", "a", "n", "d", " ", "w", "i", "r", "e">>)
    THEN 77
    ELSE IF SameIgnoringCase(fence_type, <<"s", "o", "l", "i", "d">>)
    THEN 29
    ELSE 0

(* C11: fence-type matching is case-insensitive and accepts the hyphen and *)
(* the space variant: compute_fence_height(Qt, t) gives the same outcome   *)
(* for every case variant of t, a recognised name in any case gives a      *)
(* height, and "slat-and-wire" and "slat and wire" give the same height,   *)
(* that of factor 7.7 (H = 1 at Qt = 7700).                                *)
C11_CaseInsensitive ==
    fn = "compute_fence_height" =>
        /\ \A t2 \in FenceTypes :
              SameIgnoringCase(args.fence_type, t2) =>
                  compute_fence_height(args.Qt, t2) = out
        /\ ClaimedFactor(args.fence_type) # 0 => out.kind = "ok"
        /\ ClaimedFactor(args.fence_type) = 77 =>
              /\ out = compute_fence_height(args.Qt,
                          <<"s", "l", "a", "t", "-", "a", "n", "d", "-", "w", "i", "r", "e">>)
              /\ out = compute_fence_height(args.Qt,
                          <<"s", "l", "a", "t", " ", "a", "n", "d", " ", "w", "i", "r", "e">>)
              /\ args.Qt = 7700 => out.H = HDen

(* "SLAT AND WIRE" in capitals at Qt = 7700 gives H = 1 *)
C11_Witness ==
    /\ fn = "compute_fence_height"
    /\ args.fence_type = <<"S", "L", "A", "T", " ", "A", "N", "D", " ", "W", "I", "R", "E">>
    /\ args.Qt = 7700
    /\ out.kind = "ok" /\ out.H = HDen

(* ((Qt / 1000) / factor) ** (1 / 2.2) in 1/HDen, worked out from the      *)
(* formula for the Qt and the factors (in tenths) of the explored calls    *)
ClaimedH(Qt, factor) ==
    CASE Qt = 0 -> 0
      [] Qt = 2900 /\ factor = 85 -> 613
      [] Qt = 2900 /\ factor = 77 -> 642
      [] Qt = 2900 /\ factor = 29 -> 1000
      [] Qt = 7700 /\ factor = 85 -> 956
      [] Qt = 7700 /\ factor = 77 -> 1000
      [] Qt = 7700 /\ factor = 29 -> 1559
      [] Qt = 8500 /\ factor = 85 -> 1000
      [] Qt = 8500 /\ factor = 77 -> 1046
      [] Qt = 8500 /\ factor = 29 -> 1630

(* C12: compute_fence_height returns H = ((Qt/1000)/factor)^(1/2.2) with   *)
(* factor 8.5 for wyoming, 7.7 for slat-and-wire and 2.9 for solid; H is 1 *)
(* exactly when Qt/1000 equals the factor (Qt = 8500 for Wyoming), H is 0  *)
(* when Qt = 0, and for every Qt >= 0 the result is a real, non-negative   *)
(* number.                                                                 *)
C12_FenceHeightFormula ==
    (/\ fn = "compute_fence_height"
     /\ ClaimedFactor(args.fence_type) # 0
     /\ args.Qt >= 0) =>
        /\ out.kind = "ok"
        /\ ~out.complex
        /\ out.H >= 0
        /\ out.H = ClaimedH(args.Qt, ClaimedFactor(args.fence_type))
        /\ out.H = HDen <=> args.Qt * 10 = 1000 * ClaimedFactor(args.fence_type)
        /\ args.Qt = 0 => out.H = 0

(* Wyoming at Qt = 8500 gives H = 1 *)
C12_Witness ==
    /\ fn = "compute_fence_height"
    /\ args.fence_type = <<"W", "y", "o", "m", "i", "n", "g">>
    /\ args.Qt = 8500
    /\ out.kind = "ok" /\ ~out.complex /\ out.H = HDen

(* C13: sector_index returns an integer in 0..15 for every direction,      *)
(* negative ones, 360 and values above 360 included, and has no error      *)
(* outcome, so compute_sector_transport never indexes outside its 16       *)
(* buckets.                                                                *)
C13_SectorInRange ==
    /\ fn = "sector_index" =>
          out.kind = "ok" /\ out.value \in 0..15
    /\ fn = "compute_sector_transport" =>
          ~(out.kind = "raise" /\ out.exc = "IndexError")

(* C14: sector_index(x) = sector_index(x + 360*k) for every direction x    *)
(* and every integer k.                                                    *)
C14_Periodic ==
    fn = "sector_index" =>
        \A k \in Turns :
            sector_index(FloatRound(args.direction + k * Degrees(360, 1)))
               = out.value

SectorCall == fn = "compute_sector_transport" /\ out.kind = "ok"

(* The sum of the 16 sector values of an array *)
SectorTotal(sectors) ==
    SumSeq([k \in 1..NumSectors |-> sectors[k - 1]])

C16_QtNonNegative ==
    (/\ SnowCall
     /\ out.Qupot >= 0 /\ out.Qspot >= 0
     /\ args.T > 0 /\ args.F > 0) =>
        out.Qt >= 0

(* A snowfall-controlled result with a positive Qt *)
C16_Witness ==
    /\ SnowCall
    /\ args.T > 0 /\ args.F > 0
    /\ out.Control = "Snowfall controlled"
    /\ out.Qspot > 0
    /\ out.Qt > 0

OwnRows(df, s) ==
    SelectSeq(df, LAMBDA row : row.season = s /\ InSeasonWindow(row.time, s))

(* Swe of an observation: its precipitation below 1 degree C, else 0 *)
ClaimedSwe(row) == IF row.temperature_2m < 1 THEN row.precipitation ELSE 0

(* C19: the result of compute_yearly_results for season s is computed only *)
(* from the observations that carry the label s and whose timestamp lies   *)
(* in [July 1 00:00:00 of s, June 30 23:59:59 of s+1]; an observation with *)
(* another label never contributes to season s's Swe or wind speeds, even  *)
(* with its timestamp in season s's window.                                *)
C19_OnlyOwnGroup ==
    (YearlyCall /\ args.T > 0) =>
        \A i \in DOMAIN out.rows :
            LET own == OwnRows(args.df, out.rows[i].start_year)
            IN /\ own # <<>>
               /\ out.rows[i].Qupot
                    = compute_Qupot(Column(own, "wind_speed_10m"), DefaultDt)
               /\ 2 * out.rows[i].Qspot
                    = QUnit * args.T
                        * SumSeq([k \in DOMAIN own |-> ClaimedSwe(own[k])])

(* A timestamp lies in the half-open season                                *)
(* [July 1 00:00 of Y, July 1 00:00 of Y+1)                                *)
InHalfOpenSeason(t, Y) ==
    \/ t[1] = Y /\ t[2] >= 7
    \/ t[1] = Y + 1 /\ t[2] < 7

(* The rows of the output whose season observation i of df enters *)
ContributesTo(df, i, rows) ==
    {r \in DOMAIN rows : df[i] \in Range(df_season(df, rows[r].start_year))}

(* C20: with the label derived as year if month >= 7 else year-1, every    *)
(* observation contributes to exactly one season's result, that of the     *)
(* season Y with the timestamp in [July 1 00:00 of Y, July 1 00:00 of      *)
(* Y+1); the window filter drops none and none is counted in two seasons.  *)
C20_SeasonsPartition ==
    (YearlyCall /\ args.T > 0 /\ LabelsDerived(args.df)) =>
        \A i \in DOMAIN args.df :
            /\ Cardinality(ContributesTo(args.df, i, out.rows)) = 1
            /\ \A r \in ContributesTo(args.df, i, out.rows) :
                  InHalfOpenSeason(args.df[i].time, out.rows[r].start_year)

(* The precipitation of the hours of season s's window that are strictly   *)
(* colder than 1 degree C                                                  *)
SeasonSwe(df, s) ==
    SumSeq([i \in DOMAIN df |->
              IF InSeasonWindow(df[i].time, s) /\ df[i].temperature_2m < 1
              THEN df[i].precipitation ELSE 0])

(* C21: the Swe that compute_yearly_results passes to                      *)
(* compute_snow_transport for a season is the sum of the precipitation of  *)
(* exactly those hours of the season whose temperature is strictly below   *)
(* 1 degree C; an hour at exactly 1 degree C or warmer contributes 0.      *)
C21_StrictThreshold ==
    (YearlyCall /\ args.T > 0) =>
        \A i \in DOMAIN out.rows :
            LET swe == SeasonSwe(args.df, out.rows[i].start_year)
            IN /\ 2 * out.rows[i].Qspot = QUnit * args.T * swe
               /\ out.rows[i].Srwe = args.theta * swe

(* A season of two hours with precipitation, one at 0 and one at exactly   *)
(* 1 degree C: only the first counts                                       *)
C21_Witness ==
    /\ YearlyCall /\ args.T > 0
    /\ LabelsDerived(args.df)
    /\ Len(args.df) = 2 /\ Len(out.rows) = 1
    /\ args.df[1].temperature_2m = 1 /\ args.df[1].precipitation = 1
    /\ args.df[2].temperature_2m = 0 /\ args.df[2].precipitation = 1
    /\ 2 * out.rows[1].Qspot = QUnit * args.T

(* The sector the specification gives a direction of [0, 360): sector 0    *)
(* covers [348.75, 360) and [0, 11.25), sector i of 1..15 covers           *)
(* [22.5*i - 11.25, 22.5*i + 11.25)                                        *)
ClaimedSector(d) ==
    IF d >= Degrees(1395, 4) \/ d < Degrees(45, 4) THEN 0
    ELSE CHOOSE i \in 1..15 :
            /\ Degrees(45, 2) * i - Degrees(45, 4) <= d
            /\ d < Degrees(45, 2) * i + Degrees(45, 4)

(* C22: sector_index is floor(((direction + 11.25) mod 360) / 22.5):       *)
(* sector 0 covers [348.75, 360) together with [0, 11.25), so that         *)
(* sector(348.75) = sector(0) = sector(11.249) = 0, and sector i of 1..15  *)
(* covers exactly [22.5*i - 11.25, 22.5*i + 11.25), a lower boundary       *)
(* belonging to the higher sector (sector(11.25) = 1).                     *)
C22_SectorIntervals ==
    (/\ fn = "sector_index"
     /\ args.direction >= 0 /\ args.direction < Degrees(360, 1)) =>
        out.value = ClaimedSector(args.direction)

(* u^3.8 * 3600 / 233847 in 1/QUnit kg/m for the explored speeds of 0,     *)
(* 14.3 and 16.3 m/s, worked out from the formula                          *)
ClaimedSingle(u) ==
    CASE u = 0 -> 0
      [] u = 143 -> 1513
      [] u = 163 -> 2487

(* C23: compute_Qupot of an empty sequence is 0, compute_sector_transport  *)
(* of empty sequences is an array of exactly 16 zeros, and compute_Qupot   *)
(* of a single speed u with the default dt is u^3.8 * 3600 / 233847.       *)
C23_EmptyAndSingle ==
    /\ (fn = "compute_Qupot" /\ args.ws = <<>>) =>
          out.kind = "ok" /\ out.value = 0
    /\ (fn = "compute_Qupot" /\ Len(args.ws) = 1 /\ args.dt = DefaultDt) =>
          out.kind = "ok" /\ out.value = ClaimedSingle(args.ws[1])
    /\ (fn = "compute_sector_transport" /\ args.ws = <<>> /\ args.wdirs = <<>>) =>
          /\ out.kind = "ok"
          /\ DOMAIN out.value = 0..15
          /\ \A idx \in DOMAIN out.value : out.value[idx] = 0

(* One hour at 16.3 m/s with the default dt *)
C23_Witness ==
    /\ fn = "compute_Qupot"
    /\ args.ws = <<163>> /\ args.dt = DefaultDt
    /\ out.value = 2487

(* compute_sector_transport of two empty sequences *)
C23_WitnessEmpty ==
    /\ fn = "compute_sector_transport"
    /\ args.ws = <<>> /\ args.wdirs = <<>>
    /\ out.kind = "ok" /\ out.value[15] = 0

NoAreaChosen == args.chosen_area = "absent" \/ args.chosen_area = "None"

(* C25: a run of the Snow Drift page in which session_state has no         *)
(* chosen_area key, or has it as None, stops at the warning and never      *)
(* reaches the weather-data load, compute_yearly_results or                *)
(* compute_average_sector; these are reached only in runs where            *)
(* chosen_area is set.                                                     *)
C25_GuardDeclines ==
    /\ (NoAreaChosen /\ fn \notin {"page_idle", "guard"}) =>
          fn = "stopped" /\ out.reached = <<"warning">>
    /\ NoAreaChosen =>
          Range(out.reached) \cap {"load_multi_year_weather_data",
                                   "compute_yearly_results",
                                   "compute_average_sector"} = {}
    /\ fn \in {"load", "calculate", "display"} => args.chosen_area \in PriceAreas

(* A run with chosen_area = None, stopped at the warning *)
C25_Witness ==
    /\ fn = "stopped"
    /\ args.chosen_area = "None"
    /\ out.reached = <<"warning">>

(* A run with a price area that reaches both calculations *)
C25_WitnessComputed ==
    /\ fn = "display"
    /\ args.chosen_area = "NO3"
    /\ "compute_average_sector" \in Range(out.reached)

(* C26: for every result of compute_snow_transport with T > 0, Swe >= 0,   *)
(* theta in [0, 1] and non-negative wind speeds, Qinf <= Qupot and         *)
(* Qinf <= Qspot, in both regimes.                                         *)
C26_QinfWithinCapacities ==
    (/\ SnowCall
     /\ args.T > 0 /\ args.Swe >= 0
     /\ args.theta >= 0 /\ args.theta <= ThetaDen
     /\ \A i \in 1..Len(args.ws) : args.ws[i] >= 0) =>
        /\ out.Qinf <= out.Qupot
        /\ out.Qinf <= out.Qspot

(* A snowfall-controlled result with theta < 1: Qinf is below Qspot, which *)
(* is below Qupot                                                          *)
C26_Witness ==
    /\ SnowCall
    /\ args.T > 0 /\ args.theta > 0 /\ args.theta < ThetaDen
    /\ out.Control = "Snowfall controlled"
    /\ out.Qinf > 0
    /\ out.Qinf < out.Qspot /\ out.Qspot < out.Qupot

(* A wind-controlled result whose Qinf is Qupot, below Qspot *)
C26_WitnessWind ==
    /\ SnowCall
    /\ args.T > 0
    /\ out.Control = "Wind controlled"
    /\ out.Qinf > 0
    /\ out.Qinf = out.Qupot /\ out.Qupot < out.Qspot

InWindow(df, s) == SelectSeq(df, LAMBDA row : InSeasonWindow(row.time, s))

(* The rows that an outcome of compute_yearly_results has for season s *)
ResultFor(outcome, s) ==
    IF outcome.kind = "ok"
    THEN SelectSeq(outcome.rows, LAMBDA r : r.start_year = s)
    ELSE <<>>

(* Season s is untouched by the edit: its label occurs before and after,   *)
(* and the observations in its window are the same                         *)
Untouched(s) ==
    /\ s \in LabelsOf(prev.df) /\ s \in LabelsOf(args.df)
    /\ InWindow(prev.df, s) = InWindow(args.df, s)

(* C28: adding, removing or changing observations whose timestamps lie     *)
(* outside season s's window leaves season s's row of                      *)
(* compute_yearly_results (Qupot, Qspot, Srwe, Qinf, Qt, Control, season,  *)
(* start_year) unchanged, provided the label s still occurs in the input.  *)
C28_SeasonsIndependent ==
    (fn = "compute_yearly_results" /\ prev # NoCall) =>
        \A s \in SeasonLabels :
            Untouched(s) => ResultFor(out, s) = ResultFor(prev.out, s)

(* Season 2021-2022 has a result with transport; an observation labelled   *)
(* 2021 but outside its window was added, and the season's result stayed   *)
C28_Witness ==
    /\ fn = "compute_yearly_results" /\ prev # NoCall
    /\ Untouched(2021)
    /\ Len(args.df) = Len(prev.df) + 1
    /\ Len(InWindow(args.df, 2021)) < Len(group(args.df, 2021))
    /\ Len(group(prev.df, 2021)) < Len(group(args.df, 2021))
    /\ Len(ResultFor(out, 2021)) = 1
    /\ ResultFor(out, 2021)[1].Qt > 0

(* An observation outside the window of 2021-2022 was changed *)
C28_WitnessChanged ==
    /\ fn = "compute_yearly_results" /\ prev # NoCall
    /\ Untouched(2021)
    /\ Len(args.df) = Len(prev.df) /\ args.df # prev.df
    /\ Len(ResultFor(out, 2021)) = 1

(* The arithmetic mean of the Qupot column of the rows of                  *)
(* compute_yearly_results                                                   *)
MeanQupot(rows) ==
    RoundDiv(SumSeq([r \in DOMAIN rows |-> rows[r].Qupot]), Len(rows))

(* C29: for an input whose season labels follow year if month >= 7 else    *)
(* year-1 and in which every season has at least one observation, the sum  *)
(* of the 16 values returned by compute_average_sector equals the          *)
(* arithmetic mean of the Qupot column returned by compute_yearly_results  *)
(* for the same input. The two are compared up to the rounding of the      *)
(* sums: one unit for each observation and each sector.                    *)
C29_AggregationsAgree ==
    (/\ fn = "compute_average_sector" /\ out.kind = "ok"
     /\ args.df # <<>>
     /\ LabelsDerived(args.df)
     /\ \A s \in LabelsOf(args.df) : WindowRows(args.df, s) # {}) =>
        LET yearly == compute_yearly_results(args.df, 1000, 1000, 1)
        IN /\ yearly.kind = "ok"
           /\ yearly.rows # <<>>
           /\ LET diff == SectorTotal(out.value) - MeanQupot(yearly.rows)
              IN /\ diff <= Len(args.df) + NumSectors
                 /\ -diff <= Len(args.df) + NumSectors

(* The height compute_fence_height returns for Qt and a fence design *)
HeightOf(Qt, fence_type) == compute_fence_height(Qt, fence_type).H

====
